---- MODULE Spec2Model ----
(***************************************************************************)
(* A model of blackbox.go: registration of Person and Vehicle chains on    *)
(* the ledger, anchoring of signed file fingerprints, and verification of  *)
(* a local file against the vehicle's chain.                               *)
(*                                                                         *)
(* The ledger (the factom client), the signature scheme (ed25519) and the  *)
(* digest (sha256) are libraries outside the repository; they are modelled *)
(* at their boundary: a ledger with commit/reveal submission and content-  *)
(* addressed chains, a deterministic unforgeable signature, and a digest   *)
(* without collisions. A commit pays for what the reveal publishes; the    *)
(* balance of entry credits is not modelled, so a commit shows only in its *)
(* answer, and a reveal takes effect when the ledger receives it.          *)
(***************************************************************************)
EXTENDS Integers, Sequences, FiniteSets, TLC

\* ------------------------------------------------------------- bounds
MaxBlob == 2       \* distinct file contents 1..MaxBlob
MaxEntries == 2    \* records on the vehicle's chain after its first entry

\* ------------------------------------------------------------- constants
SigLen == 64       \* var signature [64]byte
VinLen == 17       \* len(vin) != 17
ecKey == 1         \* ecKey := "PRIVATE KEY HERE": the key pair the program runs with

Keys == {1, 2}     \* key pairs: the program runs with one, the other is foreign
Blobs == 1..MaxBlob
Callers == {1}

Nil == <<>>        \* a nil error, an empty byte string
EmptyTxID == ""

\* []byte("Driver Identity Chain"), []byte("Vehicle Identity Chain")
DriverLabel ==
    <<68, 114, 105, 118, 101, 114, 32, 73, 100, 101, 110, 116, 105, 116, 121,
      32, 67, 104, 97, 105, 110>>
VehicleLabel ==
    <<86, 101, 104, 105, 99, 108, 101, 32, 73, 100, 101, 110, 116, 105, 116,
      121, 32, 67, 104, 97, 105, 110>>
\* "1234567890ABCDEFH"
VIN == <<49, 50, 51, 52, 53, 54, 55, 56, 57, 48, 65, 66, 67, 68, 69, 70, 72>>

\* ------------------------------------------------------------- libraries
\* sha256 of a byte string: a digest without collisions.
Sha256(x) == <<"sha256", x>>

\* ecAddress.PubBytes(), ecAddress.PubFixed(): the public key of key pair k.
PubBytes(k) == [i \in 1..32 |-> IF i = 1 THEN k ELSE 17]
PubFixed(k) == PubBytes(k)

\* ed.Sign(sec, message): the one 64-byte signature of `message` (the digest
\* of a one-byte file, or the empty message) under key pair k. The last byte
\* of some signatures is zero.
MessageByte(message) == IF Len(message) = 2 THEN message[2][1] ELSE 0
Sign(k, message) ==
    [i \in 1..SigLen |->
        IF i = 1 THEN k
        ELSE IF i = 2 THEN MessageByte(message)
        ELSE IF i = SigLen THEN (k + MessageByte(message)) % 2
        ELSE 255]

\* ed.Verify(pub, message, sig): sig is the signature of message under the
\* key pair whose public key is pub.
Verify(pub, message, sig) ==
    \E k \in Keys : PubFixed(k) = pub /\ sig = Sign(k, message)

\* copy(signature[:], src) into a zeroed [64]byte.
CopySig(src) ==
    [i \in 1..SigLen |-> IF i <= Len(src) THEN src[i] ELSE 0]

\* factom.NewChain(&e).ChainID: the digest of the digests of the ExtIDs.
NewChainID(extIDs) ==
    Sha256([i \in 1..Len(extIDs) |-> Sha256(extIDs[i])])

\* factom.NewChain(&e): the chain whose first entry is e.
NewChain(e) ==
    [ChainID |-> NewChainID(e.ExtIDs),
     FirstEntry |-> [ChainID |-> NewChainID(e.ExtIDs), ExtIDs |-> e.ExtIDs,
                     Content |-> e.Content]]

\* An entry as the ledger keeps it in its chain and returns it in the
\* chain's history.
Stored(e) == [ExtIDs |-> e.ExtIDs, Content |-> e.Content]

\* ------------------------------------------------------------- program
constructChainID(chainName) == NewChain([ExtIDs |-> chainName, Content |-> Nil]).ChainID

NewPerson(k) ==
    [ecAddress |-> k, chainID |-> constructChainID(<<DriverLabel, PubBytes(k)>>)]

\* Mutant: NewVehicle does not look at the VIN's length.
NewVehicle_AnyLength(vin) ==
    [vin |-> vin, chainID |-> constructChainID(<<VehicleLabel, vin>>)]

NewVehicle(vin) ==
    IF Len(vin) # VinLen THEN Nil
    ELSE [vin |-> vin, chainID |-> constructChainID(<<VehicleLabel, vin>>)]

VARIABLES
    owner,        \* vehicle.owner: 0 (nil) or the key of the owning Person
    file,         \* the bytes of the local file on disk
    chains,       \* ledger: chain ID -> the chain's entries, first entry first
    created,      \* ledger: chain ID -> number of chains created with that ID
    anchored,     \* history: the hashes a secureHashOnChain call returned a txID for
    cur,          \* per caller: the call in progress
    ret           \* the call that returned in the last step, if any

vars == <<owner, file, chains, created, anchored, cur, ret>>

person == NewPerson(ecKey)
vehicle == NewVehicle(VIN)

\* ------------------------------------------------------------- ledger
\* How a request to the ledger ends: answered; never delivered; delivered
\* and applied, but the answer is lost (a timeout).
Outcomes == {"ok", "fail", "lost"}
\* A commit or a read changes nothing the model keeps: it is answered or not.
Answers == {"ok", "fail"}
Delivered(o) == o \in {"ok", "lost"}
NetErr(fn, o) == <<fn, o>>

\* factom.ChainExists(id)
ChainExists(id) == id \in DOMAIN chains

ChainCount(id) == IF id \in DOMAIN created THEN created[id] ELSE 0

\* factom.CommitChain(chain, ec): pays for the chain; (txID, err).
CommitChainErr(o) == IF o = "ok" THEN Nil ELSE NetErr("CommitChain", o)
CommitChainTx(o) == IF o = "ok" THEN "tx-chain" ELSE EmptyTxID

\* factom.RevealChain(chain): the ledger creates the chain when it is paid
\* for and no chain with its ID exists.
RevealChainAccepted(chain, o) ==
    /\ Delivered(o)
    /\ ~ChainExists(chain.ChainID)
RevealChainErr(chain, o) ==
    IF o # "ok" THEN NetErr("RevealChain", o)
    ELSE IF RevealChainAccepted(chain, o) THEN Nil
    ELSE NetErr("RevealChain", "rejected")
RevealChainChains(chain, o) ==
    IF RevealChainAccepted(chain, o)
    THEN chains @@ (chain.ChainID :> <<Stored(chain.FirstEntry)>>)
    ELSE chains
RevealChainCreated(chain, o) ==
    IF RevealChainAccepted(chain, o)
    THEN (chain.ChainID :> ChainCount(chain.ChainID) + 1) @@ created
    ELSE created

\* factom.CommitEntry(entry, ec): pays for the entry; (txID, err).
CommitEntryErr(o) == IF o = "ok" THEN Nil ELSE NetErr("CommitEntry", o)
CommitEntryTx(o) == IF o = "ok" THEN "tx-entry" ELSE EmptyTxID

\* factom.RevealEntry(entry): the ledger appends the entry to its chain when
\* it is paid for and the chain exists.
RevealEntryAccepted(entry, o) ==
    /\ Delivered(o)
    /\ ChainExists(entry.ChainID)
RevealEntryErr(entry, o) ==
    IF o # "ok" THEN NetErr("RevealEntry", o)
    ELSE IF RevealEntryAccepted(entry, o) THEN Nil
    ELSE NetErr("RevealEntry", "rejected")
RevealEntryChains(entry, o) ==
    IF RevealEntryAccepted(entry, o)
    THEN [chains EXCEPT ![entry.ChainID] = Append(@, Stored(entry))]
    ELSE chains

\* factom.GetAllChainEntries(id): (entries, err).
GetAllChainEntriesErr(id, o) ==
    IF o # "ok" THEN NetErr("GetAllChainEntries", o)
    ELSE IF ~ChainExists(id) THEN NetErr("GetAllChainEntries", "missing")
    ELSE Nil

\* ------------------------------------------------------------- calls
NoEntry == [ChainID |-> Nil, ExtIDs |-> <<>>, Content |-> Nil]

\* No call in progress.
Idle ==
    [pc |-> "idle", op |-> "none", arg |-> Nil, probe |-> FALSE, prev |-> "none",
     calls |-> <<>>, txID |-> EmptyTxID, entry |-> NoEntry, applied |-> 0]

\* No call returned in the last step.
NoRet ==
    [op |-> "none", arg |-> Nil, probe |-> FALSE, prev |-> "none",
     calls |-> <<>>, txID |-> EmptyTxID, err |-> Nil, ok |-> FALSE,
     panic |-> FALSE, applied |-> 0]

\* What a call that returned (txID, err) told its caller.
ResultClass(r) ==
    IF r.panic THEN "panic"
    ELSE IF r.err # Nil THEN "err"
    ELSE IF r.txID = EmptyTxID THEN "empty"
    ELSE "txid"

\* What the call that returned in the last step told its caller, when it was
\* the same operation as the one now called.
PrevOf(op) == IF ret.op = op THEN ResultClass(ret) ELSE "none"

\* The call c returns (txID, err).
Returned(c, txID, err) ==
    [op |-> c.op, arg |-> c.arg, probe |-> c.probe, prev |-> c.prev,
     calls |-> c.calls, txID |-> txID, err |-> err, ok |-> FALSE,
     panic |-> FALSE, applied |-> c.applied]

Call(fn, err) == [fn |-> fn, err |-> err]

\* ------------------------------------------------------------- Register
RegisterOps == {"Person.Register", "Vehicle.Register"}

\* Mutant: the constructors derive the chain ID from the name's segments in
\* the other order than Register creates the chain with.
ReceiverChainID_Swapped(op) ==
    IF op = "Person.Register"
    THEN constructChainID(<<PubBytes(person.ecAddress), DriverLabel>>)
    ELSE constructChainID(<<vehicle.vin, VehicleLabel>>)

\* person.chainID, vehicle.chainID: the chain ID derived at construction,
\* which IsRegistered probes.
ReceiverChainID(op) ==
    IF op = "Person.Register" THEN person.chainID ELSE vehicle.chainID

\* IsRegistered(): factom.ChainExists of the receiver's chain ID.
IsRegistered(op) == ChainExists(ReceiverChainID(op))

\* Mutant: Register creates the chain with the name's segments swapped.
RegisterExtIDs_Swapped(op) ==
    IF op = "Person.Register"
    THEN <<PubBytes(person.ecAddress), DriverLabel>>
    ELSE <<vehicle.vin, VehicleLabel>>

\* chainEntry.ExtIDs: the chain name Register creates the chain with.
RegisterExtIDs(op) ==
    IF op = "Person.Register"
    THEN <<DriverLabel, PubBytes(person.ecAddress)>>
    ELSE <<VehicleLabel, vehicle.vin>>

\* Mutant: Register goes on to commit whatever the probe said.
RegisterSkips_Never(probe) == FALSE

\* if IsRegistered() { return "", nil }
RegisterSkips(probe) == probe

\* if err != nil { return "", err } after CommitChain: whether the call goes
\* on to RevealChain.
RegisterGoesOn(commitErr) == commitErr = Nil

\* Mutant: Register drops RevealChain's error.
RegisterResult_Swallow(txID, revealErr) == <<txID, Nil>>

\* What Register returns after RevealChain answered revealErr.
RegisterResult(txID, revealErr) ==
    IF revealErr # Nil THEN <<EmptyTxID, revealErr>> ELSE <<txID, Nil>>

\* Register up to its first ledger call: the existence probe, and the chain
\* entry it builds when the chain does not exist.
RegisterCall(t, op) ==
    /\ cur[t].pc = "idle"
    /\ LET probe == IsRegistered(op)
           c == [Idle EXCEPT !.op = op, !.probe = probe, !.prev = PrevOf(op)]
       IN  IF RegisterSkips(probe)
           THEN /\ cur' = [cur EXCEPT ![t] = Idle]
                /\ ret' = Returned(c, EmptyTxID, Nil)
           ELSE /\ cur' = [cur EXCEPT ![t] =
                        [c EXCEPT !.pc = "commit",
                                  !.entry = [ChainID |-> Nil,
                                             ExtIDs |-> RegisterExtIDs(op),
                                             Content |-> Nil]]]
                /\ ret' = NoRet
    /\ UNCHANGED <<owner, file, chains, created, anchored>>

\* txID, err := factom.CommitChain(chain, ecAddress)
RegisterCommit(t, o) ==
    /\ cur[t].pc = "commit"
    /\ cur[t].op \in RegisterOps
    /\ LET chain == NewChain(cur[t].entry)
           err == CommitChainErr(o)
           c == [cur[t] EXCEPT !.calls = Append(@, Call("CommitChain", err)),
                               !.txID = CommitChainTx(o)]
       IN  IF RegisterGoesOn(err)
           THEN /\ cur' = [cur EXCEPT ![t] = [c EXCEPT !.pc = "reveal"]]
                /\ ret' = NoRet
           ELSE /\ cur' = [cur EXCEPT ![t] = Idle]
                /\ ret' = Returned(c, EmptyTxID, err)
    /\ UNCHANGED <<owner, file, chains, created, anchored>>

\* _, err := factom.RevealChain(chain), and the return.
RegisterReveal(t, o) ==
    /\ cur[t].pc = "reveal"
    /\ cur[t].op \in RegisterOps
    /\ LET chain == NewChain(cur[t].entry)
           err == RevealChainErr(chain, o)
           c == [cur[t] EXCEPT !.calls = Append(@, Call("RevealChain", err)),
                               !.applied = IF RevealChainAccepted(chain, o)
                                           THEN @ + 1 ELSE @]
           res == RegisterResult(c.txID, err)
       IN  /\ chains' = RevealChainChains(chain, o)
           /\ created' = RevealChainCreated(chain, o)
           /\ cur' = [cur EXCEPT ![t] = Idle]
           /\ ret' = Returned(c, res[1], res[2])
    /\ UNCHANGED <<owner, file, anchored>>

\* vehicle.owner = person (main)
SetOwner ==
    /\ owner = 0
    /\ \A t \in Callers : cur[t].pc = "idle"
    /\ owner' = person.ecAddress
    /\ ret' = NoRet
    /\ UNCHANGED <<file, chains, created, anchored, cur>>

\* ------------------------------------------------------------- anchoring
\* Records on the vehicle's chain after its first entry.
Appended(id) == IF ChainExists(id) THEN Len(chains[id]) - 1 ELSE 0

\* secureHashOnChain calls in progress.
InFlight == Cardinality({t \in Callers : cur[t].op = "secureHashOnChain"})

\* getFileHash: the sha256 of the file's bytes.
FileHash(bytes) == Sha256(bytes)

\* Mutant: the metadata fields in the other order.
AnchorEntry_Swapped(own, hash) ==
    [ChainID |-> vehicle.chainID,
     ExtIDs |-> <<PubBytes(own), Sign(own, hash)>>,
     Content |-> hash]

\* The entry secureHashOnChain builds for hash when the owner's key is own.
AnchorEntry(own, hash) ==
    [ChainID |-> vehicle.chainID,
     ExtIDs |-> <<Sign(own, hash), PubBytes(own)>>,
     Content |-> hash]

\* Mutant: secureHashOnChain reveals the entry whatever CommitEntry answered.
SecureGoesOn_Always(commitErr) == TRUE

\* if err != nil { return "", err } after CommitEntry: whether the call goes
\* on to RevealEntry.
SecureGoesOn(commitErr) == commitErr = Nil

\* Mutant: secureHashOnChain drops RevealEntry's error.
SecureResult_Swallow(txID, revealErr) == <<txID, Nil>>

\* What secureHashOnChain returns after RevealEntry answered revealErr.
SecureResult(txID, revealErr) ==
    IF revealErr # Nil THEN <<EmptyTxID, revealErr>> ELSE <<txID, Nil>>

\* secureHashOnChain(hash) up to and with factom.CommitEntry. A nil owner is
\* a nil pointer dereference: the call panics.
SecureHashCommit(t, hash, o) ==
    /\ cur[t].pc = "idle"
    /\ Appended(vehicle.chainID) + InFlight < MaxEntries
    /\ LET c0 == [Idle EXCEPT !.op = "secureHashOnChain", !.arg = hash]
       IN  IF owner = 0
           THEN /\ cur' = [cur EXCEPT ![t] = Idle]
                /\ ret' = [Returned(c0, EmptyTxID, Nil) EXCEPT !.panic = TRUE]
           ELSE LET entry == AnchorEntry(owner, hash)
                    err == CommitEntryErr(o)
                    c == [c0 EXCEPT !.entry = entry,
                                    !.calls = Append(@, Call("CommitEntry", err)),
                                    !.txID = CommitEntryTx(o)]
                IN  IF SecureGoesOn(err)
                    THEN /\ cur' = [cur EXCEPT ![t] = [c EXCEPT !.pc = "reveal"]]
                         /\ ret' = NoRet
                    ELSE /\ cur' = [cur EXCEPT ![t] = Idle]
                         /\ ret' = Returned(c, EmptyTxID, err)
    /\ UNCHANGED <<owner, file, chains, created, anchored>>

\* _, err := factom.RevealEntry(&entry), and the return.
SecureHashReveal(t, o) ==
    /\ cur[t].pc = "reveal"
    /\ cur[t].op = "secureHashOnChain"
    /\ LET entry == cur[t].entry
           err == RevealEntryErr(entry, o)
           c == [cur[t] EXCEPT !.calls = Append(@, Call("RevealEntry", err)),
                               !.applied = IF RevealEntryAccepted(entry, o)
                                           THEN @ + 1 ELSE @]
           res == SecureResult(c.txID, err)
       IN  /\ chains' = RevealEntryChains(entry, o)
           /\ cur' = [cur EXCEPT ![t] = Idle]
           /\ ret' = Returned(c, res[1], res[2])
           /\ anchored' = IF res[2] = Nil THEN anchored \cup {c.arg} ELSE anchored
    /\ UNCHANGED <<owner, file, created>>

\* ------------------------------------------------------------- verification
\* Mutant: a validly signed record of the owner matches whatever its content.
EntryCheck_NoHashCompare(entry, own, localHash) ==
    IF Len(entry.ExtIDs) # 2 THEN "skip"
    ELSE IF own = 0 THEN "panic"
    ELSE IF entry.ExtIDs[2] # PubBytes(own) THEN "skip"
    ELSE IF ~Verify(PubFixed(own), entry.Content, CopySig(entry.ExtIDs[1]))
    THEN "skip"
    ELSE "match"

\* Mutant: the signature is checked under the key the record carries, and
\* that key is not compared with the owner's.
EntryCheck_EmbeddedKey(entry, own, localHash) ==
    IF Len(entry.ExtIDs) # 2 THEN "skip"
    ELSE IF own = 0 THEN "panic"
    ELSE IF ~Verify(entry.ExtIDs[2], entry.Content, CopySig(entry.ExtIDs[1]))
    THEN "skip"
    ELSE IF localHash = entry.Content THEN "match"
    ELSE "skip"

\* Mutant: the signature is not verified.
EntryCheck_NoVerify(entry, own, localHash) ==
    IF Len(entry.ExtIDs) # 2 THEN "skip"
    ELSE IF own = 0 THEN "panic"
    ELSE IF entry.ExtIDs[2] # PubBytes(own) THEN "skip"
    ELSE IF localHash = entry.Content THEN "match"
    ELSE "skip"

\* One pass of VerifyData's loop body over entry, the owner's key being own
\* (0: vehicle.owner is nil) and the local file's hash localHash:
\* "skip" (continue), "match" (return true, nil) or "panic".
EntryCheck(entry, own, localHash) ==
    IF Len(entry.ExtIDs) # 2 THEN "skip"
    ELSE IF own = 0 THEN "panic"
    ELSE IF entry.ExtIDs[2] # PubBytes(own) THEN "skip"
    ELSE IF ~Verify(PubFixed(own), entry.Content, CopySig(entry.ExtIDs[1]))
    THEN "skip"
    ELSE IF localHash = entry.Content THEN "match"
    ELSE "skip"

RECURSIVE ScanFrom(_, _, _, _)

\* Mutant: a record without exactly two metadata fields ends the scan.
ScanFrom_AbortOnMalformed(entries, i, own, localHash) ==
    IF i > Len(entries) THEN "false"
    ELSE IF Len(entries[i].ExtIDs) # 2 THEN "false"
    ELSE LET step == EntryCheck(entries[i], own, localHash)
         IN  IF step = "match" THEN "true"
             ELSE IF step = "panic" THEN "panic"
             ELSE ScanFrom(entries, i + 1, own, localHash)

\* Mutant: only the newest record of the history is looked at.
ScanFrom_NewestOnly(entries, i, own, localHash) ==
    IF Len(entries) = 0 THEN "false"
    ELSE LET step == EntryCheck(entries[Len(entries)], own, localHash)
         IN  IF step = "match" THEN "true"
             ELSE IF step = "panic" THEN "panic"
             ELSE "false"

\* for _, entry := range entries, from the i-th entry on:
\* "true", "false" or "panic".
ScanFrom(entries, i, own, localHash) ==
    IF i > Len(entries) THEN "false"
    ELSE LET step == EntryCheck(entries[i], own, localHash)
         IN  IF step = "match" THEN "true"
             ELSE IF step = "panic" THEN "panic"
             ELSE ScanFrom(entries, i + 1, own, localHash)

\* ioutil.ReadFile(path): (bytes, err).
ReadFileErr(o) == IF o = "ok" THEN Nil ELSE <<"ReadFile", o>>

\* Mutant: the file is read before the history is fetched, and its error
\* comes first.
VerifyDataResult_ReadFirst(ho, ro) ==
    LET herr == GetAllChainEntriesErr(vehicle.chainID, ho)
        rerr == ReadFileErr(ro)
        hcall == Call("GetAllChainEntries", herr)
        rcall == Call("ReadFile", rerr)
    IN  IF rerr # Nil THEN <<FALSE, rerr, FALSE, <<rcall>> >>
        ELSE IF herr # Nil THEN <<FALSE, herr, FALSE, <<rcall, hcall>> >>
        ELSE LET scan == ScanFrom(chains[vehicle.chainID], 1, owner, FileHash(file))
             IN  <<scan = "true", Nil, scan = "panic", <<rcall, hcall>> >>

\* VerifyData(filepath): <<result, err, panicked, the calls it made>>.
VerifyDataResult(ho, ro) ==
    LET herr == GetAllChainEntriesErr(vehicle.chainID, ho)
        rerr == ReadFileErr(ro)
        hcall == Call("GetAllChainEntries", herr)
        rcall == Call("ReadFile", rerr)
    IN  IF herr # Nil THEN <<FALSE, herr, FALSE, <<hcall>> >>
        ELSE IF rerr # Nil THEN <<FALSE, rerr, FALSE, <<hcall, rcall>> >>
        ELSE LET scan == ScanFrom(chains[vehicle.chainID], 1, owner, FileHash(file))
             IN  <<scan = "true", Nil, scan = "panic", <<hcall, rcall>> >>

VerifyData(t, ho, ro) ==
    /\ cur[t].pc = "idle"
    /\ LET res == VerifyDataResult(ho, ro)
           c == [Idle EXCEPT !.op = "VerifyData", !.calls = res[4]]
       IN  ret' = [Returned(c, EmptyTxID, res[2]) EXCEPT !.ok = res[1], !.panic = res[3]]
    /\ UNCHANGED <<owner, file, chains, created, anchored, cur>>

\* ------------------------------------------------------------- environment
Hashes == {FileHash(<<b>>) : b \in Blobs}

\* Some other content than b.
OtherBlob(b) == (b % MaxBlob) + 1

\* Records other writers can put on the vehicle's chain (the ledger is open
\* to any writer):
\*   a record with a missing metadata field, and one with a field too many;
\*   a record signed and keyed by another key pair than the program's;
\*   a record with the program's public key and a signature of the program's
\*   key pair over another content than the record's.
ForeignRecords ==
    LET id == vehicle.chainID
    IN  {[ChainID |-> id, ExtIDs |-> <<Sign(ecKey, FileHash(<<1>>))>>,
          Content |-> FileHash(<<1>>)],
         [ChainID |-> id,
          ExtIDs |-> <<Sign(ecKey, FileHash(<<1>>)), PubBytes(ecKey), PubBytes(ecKey)>>,
          Content |-> FileHash(<<1>>)]}
        \cup {[ChainID |-> id, ExtIDs |-> <<Sign(k, FileHash(<<b>>)), PubBytes(k)>>,
               Content |-> FileHash(<<b>>)] : k \in Keys \ {ecKey}, b \in Blobs}
        \cup {[ChainID |-> id,
               ExtIDs |-> <<Sign(ecKey, FileHash(<<OtherBlob(b)>>)), PubBytes(ecKey)>>,
               Content |-> FileHash(<<b>>)] : b \in Blobs}

\* Another writer appends a record to the vehicle's chain.
ForeignEntry(e) ==
    /\ ChainExists(vehicle.chainID)
    /\ Appended(vehicle.chainID) + InFlight < MaxEntries
    /\ chains' = [chains EXCEPT ![e.ChainID] = Append(@, Stored(e))]
    /\ ret' = NoRet
    /\ UNCHANGED <<owner, file, created, anchored, cur>>

\* The local file is rewritten on disk.
MutateFile(b) ==
    /\ file # <<b>>
    /\ file' = <<b>>
    /\ ret' = NoRet
    /\ UNCHANGED <<owner, chains, created, anchored, cur>>

\* ------------------------------------------------------------- specification
Init ==
    /\ owner = 0
    /\ file \in {<<b>> : b \in Blobs}
    /\ chains = <<>>
    /\ created = <<>>
    /\ anchored = {}
    /\ cur = [t \in Callers |-> Idle]
    /\ ret = NoRet

Next ==
    \/ \E t \in Callers, op \in RegisterOps : RegisterCall(t, op)
    \/ \E t \in Callers, o \in Answers : RegisterCommit(t, o)
    \/ \E t \in Callers, o \in Outcomes : RegisterReveal(t, o)
    \/ SetOwner
    \/ \E t \in Callers, h \in Hashes, o \in Answers : SecureHashCommit(t, h, o)
    \/ \E t \in Callers, o \in Outcomes : SecureHashReveal(t, o)
    \/ \E t \in Callers, ho \in Answers, ro \in Answers : VerifyData(t, ho, ro)
    \/ \E e \in ForeignRecords : ForeignEntry(e)
    \/ \E b \in Blobs : MutateFile(b)

Spec == Init /\ [][Next]_vars

\* ------------------------------------------------------------- properties
VehicleHistory ==
    IF ChainExists(vehicle.chainID) THEN chains[vehicle.chainID] ELSE <<>>

\* Every call to the ledger or the disk that the returned call made was
\* answered without error.
AllAnswered(r) == \A i \in DOMAIN r.calls : r.calls[i].err = Nil

CountCalls(calls, fn) == Cardinality({i \in DOMAIN calls : calls[i].fn = fn})

\* The calls of one Register or secureHashOnChain: at most one commit, at
\* most one reveal, the reveal only after a commit that succeeded, and
\* nothing after a call that failed.
TwoPhase(calls, commit, reveal) ==
    /\ CountCalls(calls, commit) <= 1
    /\ CountCalls(calls, reveal) <= 1
    /\ \A i \in DOMAIN calls :
        /\ calls[i].fn \in {commit, reveal}
        /\ calls[i].fn = reveal =>
            \E j \in 1..(i - 1) : calls[j].fn = commit /\ calls[j].err = Nil
        /\ calls[i].err # Nil => i = Len(calls)

\* A returned call hands its caller ("", err) when a call of its failed, err
\* being that call's error, and no error otherwise.
ErrorSurfaced(r) ==
    IF AllAnswered(r) THEN r.err = Nil
    ELSE r.txID = EmptyTxID /\ r.err = r.calls[Len(r.calls)].err

CommittedAndRevealed(r, commit, reveal) ==
    r.calls = <<Call(commit, Nil), Call(reveal, Nil)>>

NoDuplicateChains == \A id \in DOMAIN created : created[id] <= 1

\* C1: idempotent registration. A Register that finds no chain and whose
\* commit and reveal both succeed returns (non-empty TxID, nil); the Register
\* called next on the same entity returns ("", nil); and the ledger never
\* holds two chains with one chain ID.
C1_IdempotentRegistration ==
    /\ (ret.op \in RegisterOps /\ ~ret.probe
            /\ CommittedAndRevealed(ret, "CommitChain", "RevealChain"))
        => (ret.txID # EmptyTxID /\ ret.err = Nil)
    /\ (ret.op \in RegisterOps /\ ret.prev = "txid")
        => (ret.txID = EmptyTxID /\ ret.err = Nil)
    /\ NoDuplicateChains

C1_Witness ==
    /\ ret.op \in RegisterOps
    /\ ret.prev = "txid"
    /\ ret.txID = EmptyTxID
    /\ ret.err = Nil
    /\ ChainCount(ReceiverChainID(ret.op)) = 1

\* C2: Register is a no-op on an existing chain. When the existence probe
\* answers true, Register returns ("", nil), has issued neither CommitChain
\* nor RevealChain, and the step leaves the ledger as it was.
C2_RegisterNoOpOnExistingChain ==
    /\ [](ret.op \in RegisterOps /\ ret.probe
            => /\ ret.txID = EmptyTxID
               /\ ret.err = Nil
               /\ ret.calls = <<>>
               /\ ret.applied = 0)
    /\ [][(ret'.op \in RegisterOps /\ ret'.probe)
            => (chains' = chains /\ created' = created)]_vars

C2_Witness ==
    /\ ret.op \in RegisterOps
    /\ ret.probe
    /\ ret.txID = EmptyTxID
    /\ ChainExists(ReceiverChainID(ret.op))

\* C3: verification true-positive. When secureHashOnChain has succeeded for
\* the fingerprint of the file as it now is on disk, under the vehicle's
\* owner, a VerifyData whose history fetch and file read succeed returns
\* (true, nil), whatever else is on the chain.
C3_VerificationTruePositive ==
    (ret.op = "VerifyData" /\ AllAnswered(ret) /\ Len(ret.calls) = 2
        /\ FileHash(file) \in anchored)
    => (ret.ok /\ ret.err = Nil /\ ~ret.panic)

C3_Witness ==
    /\ ret.op = "VerifyData"
    /\ ret.ok
    /\ FileHash(file) \in anchored
    /\ Len(VehicleHistory) >= 3

\* C4: verification true-negative. When a fingerprint was anchored and the
\* file's fingerprint now equals the content of no record on the chain, a
\* VerifyData whose history fetch and file read succeed returns (false, nil).
C4_VerificationTrueNegative ==
    (ret.op = "VerifyData" /\ AllAnswered(ret) /\ Len(ret.calls) = 2
        /\ anchored # {}
        /\ \A i \in DOMAIN VehicleHistory :
            VehicleHistory[i].Content # FileHash(file))
    => (~ret.ok /\ ret.err = Nil /\ ~ret.panic)

C4_Witness ==
    /\ ret.op = "VerifyData"
    /\ AllAnswered(ret) /\ Len(ret.calls) = 2
    /\ anchored # {}
    /\ FileHash(file) \notin anchored
    /\ \A i \in DOMAIN VehicleHistory : VehicleHistory[i].Content # FileHash(file)
    /\ ~ret.ok
    /\ ret.err = Nil

\* C5: ownership scoping. When every two-field record whose content is the
\* local file's fingerprint carries another public key than the owner's,
\* VerifyData does not return true, valid as those records' signatures may be
\* under the keys they carry.
C5_OwnershipScoping ==
    (ret.op = "VerifyData"
        /\ \A i \in DOMAIN VehicleHistory :
            (Len(VehicleHistory[i].ExtIDs) = 2
                /\ VehicleHistory[i].Content = FileHash(file))
            => VehicleHistory[i].ExtIDs[2] # PubBytes(owner))
    => ~ret.ok

C5_Witness ==
    /\ ret.op = "VerifyData"
    /\ AllAnswered(ret) /\ Len(ret.calls) = 2
    /\ owner # 0
    /\ ~ret.ok
    /\ \E i \in DOMAIN VehicleHistory, k \in Keys \ {owner} :
        /\ VehicleHistory[i].Content = FileHash(file)
        /\ VehicleHistory[i].ExtIDs = <<Sign(k, FileHash(file)), PubBytes(k)>>

\* A record of the owner's, validly signed over the local file's fingerprint.
IsValidMatch(e) ==
    /\ owner # 0
    /\ e.ExtIDs = <<Sign(owner, FileHash(file)), PubBytes(owner)>>
    /\ e.Content = FileHash(file)

MalformedBeforeMatch ==
    \E i \in DOMAIN VehicleHistory, j \in DOMAIN VehicleHistory :
        /\ i < j
        /\ Len(VehicleHistory[i].ExtIDs) # 2
        /\ IsValidMatch(VehicleHistory[j])

\* C6: malformed record tolerance. When a record without exactly two metadata
\* fields precedes a valid match in the history, a VerifyData whose history
\* fetch and file read succeed neither panics nor errs and returns
\* (true, nil).
C6_MalformedRecordTolerance ==
    (ret.op = "VerifyData" /\ AllAnswered(ret) /\ Len(ret.calls) = 2
        /\ MalformedBeforeMatch)
    => (ret.ok /\ ret.err = Nil /\ ~ret.panic)

C6_Witness ==
    /\ ret.op = "VerifyData"
    /\ MalformedBeforeMatch
    /\ ret.ok
    /\ ret.err = Nil

\* C7: Register failure handling. A Register call issues CommitChain at most
\* once and RevealChain at most once, RevealChain only after CommitChain
\* succeeded, and nothing after a call that failed; when a phase failed it
\* returns ("", that phase's error).
C7_RegisterFailureHandling ==
    /\ \A t \in Callers :
        cur[t].op \in RegisterOps
            => (TwoPhase(cur[t].calls, "CommitChain", "RevealChain")
                /\ AllAnswered(cur[t]))
    /\ ret.op \in RegisterOps
        => (TwoPhase(ret.calls, "CommitChain", "RevealChain")
            /\ ErrorSurfaced(ret))

C7_Witness ==
    /\ ret.op \in RegisterOps
    /\ Len(ret.calls) = 2
    /\ ret.calls[2].err # Nil
    /\ ret.err = ret.calls[2].err
    /\ ret.txID = EmptyTxID

\* C8: retry safety. No sequence of failed and retried Register calls reaches
\* two chains with one chain ID, and a Register called right after a failed
\* Register of the same entity, if it returns without error, leaves exactly
\* one chain with the entity's chain ID.
C8_RetrySafety ==
    /\ NoDuplicateChains
    /\ (ret.op \in RegisterOps /\ ret.prev = "err" /\ ret.err = Nil)
        => (ChainExists(ReceiverChainID(ret.op))
            /\ ChainCount(ReceiverChainID(ret.op)) = 1)

C8_Witness ==
    /\ ret.op \in RegisterOps
    /\ ret.prev = "err"
    /\ CommittedAndRevealed(ret, "CommitChain", "RevealChain")
    /\ ret.txID # EmptyTxID
    /\ ChainCount(ReceiverChainID(ret.op)) = 1

\* The record secureHashOnChain(hash) is to put on the chain.
ExpectedRecord(hash) ==
    [ExtIDs |-> <<Sign(owner, hash), PubBytes(owner)>>, Content |-> hash]

\* C9: anchor effect. The commit step of secureHashOnChain leaves every chain
\* as it was, and the reveal step of a call that returns without error
\* appends one record to the vehicle's chain, with metadata [signature of the
\* hash under the owner's key, owner's public key] and content the hash, and
\* changes no other record and no other chain.
C9_AnchorEffect ==
    [][\A t \in Callers :
        /\ (cur[t].pc = "idle"
                /\ (cur'[t].op = "secureHashOnChain" \/ ret'.op = "secureHashOnChain"))
            => (chains' = chains /\ created' = created)
        /\ (cur[t].op = "secureHashOnChain" /\ cur[t].pc = "reveal"
                /\ cur'[t].pc = "idle" /\ ret'.err = Nil)
            => /\ ChainExists(vehicle.chainID)
               /\ chains' = [chains EXCEPT ![vehicle.chainID] =
                                Append(@, ExpectedRecord(cur[t].arg))]
               /\ created' = created]_vars

C9_Witness ==
    /\ ret.op = "secureHashOnChain"
    /\ ret.err = Nil
    /\ ~ret.panic
    /\ ret.txID # EmptyTxID
    /\ Len(VehicleHistory) >= 3
    /\ VehicleHistory[Len(VehicleHistory)] = ExpectedRecord(ret.arg)

\* C10: anchor failure handling. A secureHashOnChain call issues CommitEntry
\* at most once and RevealEntry at most once, RevealEntry only after
\* CommitEntry succeeded, and nothing after a call that failed; when either
\* failed it returns ("", that error); and one call appends at most one
\* record.
C10_AnchorFailureHandling ==
    /\ \A t \in Callers :
        cur[t].op = "secureHashOnChain"
            => (TwoPhase(cur[t].calls, "CommitEntry", "RevealEntry")
                /\ AllAnswered(cur[t])
                /\ cur[t].applied = 0)
    /\ (ret.op = "secureHashOnChain" /\ ~ret.panic)
        => (TwoPhase(ret.calls, "CommitEntry", "RevealEntry")
            /\ ErrorSurfaced(ret)
            /\ ret.applied <= 1)

C10_Witness ==
    /\ ret.op = "secureHashOnChain"
    /\ Len(ret.calls) = 2
    /\ ret.calls[2].err # Nil
    /\ ret.err = ret.calls[2].err
    /\ ret.txID = EmptyTxID

\* ------------------------------------------------------------- main with any VIN
\* VINs main can be given: of 17 characters (the source's, and another one),
\* one character short, one character long, and empty.
VinInputs ==
    {VIN, [VIN EXCEPT ![VinLen] = 71], SubSeq(VIN, 1, VinLen - 1),
     Append(VIN, 48), <<>>}

\* vehicle := NewVehicle(vin): main holds what NewVehicle returned.
MainNewVehicle(t, vin) ==
    /\ cur[t].pc = "idle"
    /\ cur' = [cur EXCEPT ![t] =
            [Idle EXCEPT !.pc = "constructed", !.op = "main", !.arg = vin]]
    /\ ret' = NoRet
    /\ UNCHANGED <<owner, file, chains, created, anchored>>

\* vehicle.Register(ecAddress) on what NewVehicle returned, up to its first
\* ledger call. On a nil vehicle, IsRegistered dereferences nil before it
\* calls the ledger: the program panics.
MainRegister(t) ==
    /\ cur[t].pc = "constructed"
    /\ LET v == NewVehicle(cur[t].arg)
           c0 == [cur[t] EXCEPT !.op = "Vehicle.Register"]
       IN  IF v = Nil
           THEN /\ cur' = [cur EXCEPT ![t] = Idle]
                /\ ret' = [Returned(c0, EmptyTxID, Nil) EXCEPT !.panic = TRUE]
           ELSE LET probe == ChainExists(v.chainID)
                    c == [c0 EXCEPT !.probe = probe,
                                    !.calls = <<Call("ChainExists", Nil)>>]
                IN  IF RegisterSkips(probe)
                    THEN /\ cur' = [cur EXCEPT ![t] = Idle]
                         /\ ret' = Returned(c, EmptyTxID, Nil)
                    ELSE /\ cur' = [cur EXCEPT ![t] =
                                [c EXCEPT !.pc = "commit",
                                          !.entry = [ChainID |-> Nil,
                                                     ExtIDs |-> <<VehicleLabel, v.vin>>,
                                                     Content |-> Nil]]]
                         /\ ret' = NoRet
    /\ UNCHANGED <<owner, file, chains, created, anchored>>

NextVin ==
    \/ \E t \in Callers, vin \in VinInputs : MainNewVehicle(t, vin)
    \/ \E t \in Callers : MainRegister(t)
    \/ \E t \in Callers : RegisterCall(t, "Person.Register")
    \/ \E t \in Callers, o \in Answers : RegisterCommit(t, o)
    \/ \E t \in Callers, o \in Outcomes : RegisterReveal(t, o)

SpecVin == Init /\ [][NextVin]_vars

\* ------------------------------------------------------------- two registrars
\* Two runs of the program with the same key pair and the same VIN start at
\* the same time: their Register calls interleave at every ledger call.
Registrars == {1, 2}

InitConc ==
    /\ owner = 0
    /\ file \in {<<b>> : b \in Blobs}
    /\ chains = <<>>
    /\ created = <<>>
    /\ anchored = {}
    /\ cur = [t \in Registrars |-> Idle]
    /\ ret = NoRet

NextConc ==
    \/ \E t \in Registrars, op \in RegisterOps : RegisterCall(t, op)
    \/ \E t \in Registrars, o \in Answers : RegisterCommit(t, o)
    \/ \E t \in Registrars, o \in Outcomes : RegisterReveal(t, o)

SpecConc == InitConc /\ [][NextConc]_vars

\* C11: a VerifyData that returns hands back a non-nil error exactly when the
\* history fetch or the file read failed: the result is then false and the
\* error is the failed call's; the history is fetched first, and the file is
\* not read when the fetch failed. In every other case the error is nil.
C11_VerifyDataErrors ==
    (ret.op = "VerifyData" /\ ~ret.panic)
    => /\ Len(ret.calls) >= 1
       /\ ret.calls[1].fn = "GetAllChainEntries"
       /\ ret.calls[1].err # Nil => ret.calls = <<ret.calls[1]>>
       /\ ret.calls[1].err = Nil =>
            (Len(ret.calls) = 2 /\ ret.calls[2].fn = "ReadFile")
       /\ (ret.err # Nil) <=> ~AllAnswered(ret)
       /\ ret.err # Nil =>
            (~ret.ok /\ ret.err = ret.calls[Len(ret.calls)].err)

C11_Witness ==
    /\ ret.op = "VerifyData"
    /\ ret.calls = <<Call("GetAllChainEntries", Nil),
                     Call("ReadFile", ReadFileErr("fail"))>>
    /\ ret.err = ReadFileErr("fail")
    /\ ~ret.ok

\* The orderings of n records.
Orderings(n) ==
    {p \in [1..n -> 1..n] : \A i, j \in 1..n : i # j => p[i] # p[j]}

Permuted(entries, p) == [i \in 1..Len(entries) |-> entries[p[i]]]

\* What a VerifyData that fetched the history and read the file ends with.
ScanOutcome(r) == IF r.panic THEN "panic" ELSE IF r.ok THEN "true" ELSE "false"

\* C12: order independence. What a VerifyData whose history fetch and file
\* read succeed returns is what the scan returns on every ordering of the
\* records of the history, the file and the owner's key being the same.
C12_OrderIndependence ==
    (ret.op = "VerifyData" /\ AllAnswered(ret) /\ Len(ret.calls) = 2)
    => \A p \in Orderings(Len(VehicleHistory)) :
        ScanFrom(Permuted(VehicleHistory, p), 1, owner, FileHash(file))
            = ScanOutcome(ret)

\* The match is the last record, after a record that carries the owner's key
\* and does not match.
C12_Witness ==
    /\ ret.op = "VerifyData"
    /\ ret.ok
    /\ Len(VehicleHistory) = 3
    /\ IsValidMatch(VehicleHistory[3])
    /\ ~IsValidMatch(VehicleHistory[2])
    /\ Len(VehicleHistory[2].ExtIDs) = 2
    /\ VehicleHistory[2].ExtIDs[2] = PubBytes(owner)

\* ------------------------------------------------------------- point lookup
\* The ledger after main has run: the vehicle's and the person's chains are
\* registered, and the person is the vehicle's owner.
RegisteredChains ==
    LET pc == NewChain([ExtIDs |-> RegisterExtIDs("Person.Register"), Content |-> Nil])
        vc == NewChain([ExtIDs |-> RegisterExtIDs("Vehicle.Register"), Content |-> Nil])
    IN  (pc.ChainID :> <<Stored(pc.FirstEntry)>>)
            @@ (vc.ChainID :> <<Stored(vc.FirstEntry)>>)

\* A signature field as a writer can put it in a record: the signature, the
\* signature followed by one more byte, the signature without its last
\* byte, and an empty field.
SigFields(sig) ==
    {sig, Append(sig, 7), SubSeq(sig, 1, SigLen - 1), <<>>}

\* Records a writer can put on the vehicle's chain, over the content of each
\* blob, made with the program's key pair:
\*   the program's own record, with each form of the signature field;
\*   a record with the signature as its only metadata field;
\*   a record with the signature and another public key than the program's;
\* and a record without metadata.
LookupRecords ==
    LET id == vehicle.chainID
    IN  {[ChainID |-> id, ExtIDs |-> <<s, PubBytes(ecKey)>>, Content |-> FileHash(<<b>>)] :
            b \in Blobs, s \in UNION {SigFields(Sign(ecKey, FileHash(<<c>>))) : c \in Blobs}}
        \cup {[ChainID |-> id, ExtIDs |-> <<Sign(ecKey, FileHash(<<b>>))>>,
               Content |-> FileHash(<<b>>)] : b \in Blobs}
        \cup {[ChainID |-> id,
               ExtIDs |-> <<Sign(ecKey, FileHash(<<b>>)), PubBytes(k)>>,
               Content |-> FileHash(<<b>>)] : b \in Blobs, k \in Keys \ {ecKey}}
        \cup {[ChainID |-> id, ExtIDs |-> <<>>, Content |-> FileHash(<<1>>)]}

\* A writer appends a record to the vehicle's chain.
LookupEntry(e) ==
    /\ Appended(vehicle.chainID) < MaxEntries
    /\ chains' = [chains EXCEPT ![e.ChainID] = Append(@, Stored(e))]
    /\ ret' = NoRet
    /\ UNCHANGED <<owner, file, created, anchored, cur>>

\* factom.GetEntry(entryHash): (entry, err). entryHash names the i-th entry
\* of the vehicle's chain, or no entry of the ledger (i = 0).
GetEntryErr(i, o) ==
    IF o # "ok" THEN NetErr("GetEntry", o)
    ELSE IF i \notin DOMAIN VehicleHistory THEN NetErr("GetEntry", "missing")
    ELSE Nil

\* checkFileIntegrity(filepath, entryHash):
\* <<result, err, panicked, the calls it made>>.
CheckFileIntegrityResult(i, ro, go) ==
    LET rerr == ReadFileErr(ro)
        gerr == GetEntryErr(i, go)
        rcall == Call("ReadFile", rerr)
        gcall == Call("GetEntry", gerr)
    IN  IF rerr # Nil THEN <<FALSE, rerr, FALSE, <<rcall>> >>
        ELSE IF gerr # Nil THEN <<FALSE, gerr, FALSE, <<rcall, gcall>> >>
        ELSE LET entry == VehicleHistory[i]
                 onDiskHash == FileHash(file)
                 onChainHash == entry.Content
             IN  IF Len(entry.ExtIDs) = 0 \/ owner = 0
                 THEN <<FALSE, Nil, TRUE, <<rcall, gcall>> >>
                 ELSE LET validSig == Verify(PubFixed(owner), onChainHash,
                                             CopySig(entry.ExtIDs[1]))
                      IN  <<validSig /\ onDiskHash = onChainHash, Nil, FALSE,
                            <<rcall, gcall>> >>

CheckFileIntegrity(t, i, ro, go) ==
    /\ cur[t].pc = "idle"
    /\ i \in 0..Len(VehicleHistory)
    /\ LET res == CheckFileIntegrityResult(i, ro, go)
           c == [Idle EXCEPT !.op = "checkFileIntegrity", !.arg = <<i>>,
                             !.calls = res[4]]
       IN  ret' = [Returned(c, EmptyTxID, res[2]) EXCEPT !.ok = res[1], !.panic = res[3]]
    /\ UNCHANGED <<owner, file, chains, created, anchored, cur>>

InitLookup ==
    /\ owner = person.ecAddress
    /\ file \in {<<b>> : b \in Blobs}
    /\ chains = RegisteredChains
    /\ created = [id \in DOMAIN RegisteredChains |-> 1]
    /\ anchored = {}
    /\ cur = [t \in Callers |-> Idle]
    /\ ret = NoRet

NextLookup ==
    \/ \E e \in LookupRecords : LookupEntry(e)
    \/ \E b \in Blobs : MutateFile(b)
    \/ \E t \in Callers, ho \in Answers, ro \in Answers : VerifyData(t, ho, ro)
    \/ \E t \in Callers, i \in 0..(MaxEntries + 1), ro \in Answers, go \in Answers :
        CheckFileIntegrity(t, i, ro, go)

SpecLookup == InitLookup /\ [][NextLookup]_vars

\* ------------------------------------------------------------- recording loops
Loops == {"RecordVideo", "RecordOBD"}

\* What the loop does with an error of capturing, fingerprinting or
\* anchoring: RecordOBD panics with it (if err != nil { panic(err) });
\* RecordVideo assigns it to _ or drops the call's results, and goes on.
LoopPanics(loop, err) == loop = "RecordOBD" /\ err # Nil

\* One pass of the loop ends after secureHashOnChain returned err, or after a
\* panic with err before it was called.
LoopEnd(loop, c, err) ==
    IF LoopPanics(loop, err)
    THEN [Returned(c, EmptyTxID, err) EXCEPT !.panic = TRUE]
    ELSE Returned(c, EmptyTxID, Nil)

\* One pass of the loop of RecordVideo or RecordOBD, up to and with
\* factom.CommitEntry: the segment is captured (co: the video file created,
\* the OBD file written), the file is fingerprinted (ro: ioutil.ReadFile; of
\* the path "" when RecordVideo's capture failed), and secureHashOnChain is
\* called with the hash (nil when getFileHash failed).
RecordCommit(t, loop, co, ro, o) ==
    /\ cur[t].pc = "idle"
    /\ Appended(vehicle.chainID) < MaxEntries
    /\ LET cerr == IF co = "ok" THEN Nil ELSE <<"capture", co>>
           rerr == IF cerr # Nil THEN ReadFileErr("fail") ELSE ReadFileErr(ro)
           hash == IF rerr = Nil THEN FileHash(file) ELSE Nil
           c1 == [Idle EXCEPT !.op = loop, !.calls = <<Call("capture", cerr)>>]
           c2 == [c1 EXCEPT !.calls = Append(@, Call("ReadFile", rerr))]
       IN  IF LoopPanics(loop, cerr)
           THEN /\ cur' = [cur EXCEPT ![t] = Idle]
                /\ ret' = LoopEnd(loop, c1, cerr)
           ELSE IF LoopPanics(loop, rerr)
           THEN /\ cur' = [cur EXCEPT ![t] = Idle]
                /\ ret' = LoopEnd(loop, c2, rerr)
           ELSE LET entry == AnchorEntry(owner, hash)
                    err == CommitEntryErr(o)
                    c == [c2 EXCEPT !.arg = hash,
                                    !.entry = entry,
                                    !.calls = Append(@, Call("CommitEntry", err)),
                                    !.txID = CommitEntryTx(o)]
                IN  IF SecureGoesOn(err)
                    THEN /\ cur' = [cur EXCEPT ![t] = [c EXCEPT !.pc = "reveal"]]
                         /\ ret' = NoRet
                    ELSE /\ cur' = [cur EXCEPT ![t] = Idle]
                         /\ ret' = LoopEnd(loop, c, SecureResult(c.txID, err)[2])
    /\ UNCHANGED <<owner, file, chains, created, anchored>>

\* secureHashOnChain's factom.RevealEntry, its return, and the end of the
\* pass.
RecordReveal(t, o) ==
    /\ cur[t].pc = "reveal"
    /\ cur[t].op \in Loops
    /\ LET entry == cur[t].entry
           err == RevealEntryErr(entry, o)
           c == [cur[t] EXCEPT !.calls = Append(@, Call("RevealEntry", err)),
                               !.applied = IF RevealEntryAccepted(entry, o)
                                           THEN @ + 1 ELSE @]
           res == SecureResult(c.txID, err)
       IN  /\ chains' = RevealEntryChains(entry, o)
           /\ cur' = [cur EXCEPT ![t] = Idle]
           /\ ret' = LoopEnd(c.op, c, res[2])
    /\ UNCHANGED <<owner, file, created, anchored>>

NextRecord ==
    \/ \E t \in Callers, loop \in Loops, co \in Answers, ro \in Answers, o \in Answers :
        RecordCommit(t, loop, co, ro, o)
    \/ \E t \in Callers, o \in Outcomes : RecordReveal(t, o)
    \/ \E b \in Blobs : MutateFile(b)

SpecRecord == InitLookup /\ [][NextRecord]_vars

\* The record a checkFileIntegrity call that returned had fetched.
Fetched(r) == VehicleHistory[r.arg[1]]

\* The call that returned fetched what it asked the ledger and the disk for.
FetchedAll(r) == AllAnswered(r) /\ Len(r.calls) = 2

\* C13: a record whose signature field is not exactly 64 bytes long is never
\* accepted as a match and never makes a call crash: a VerifyData that
\* returns true has found a match whose signature field is 64 bytes long and
\* no VerifyData crashes; a checkFileIntegrity on a record whose signature
\* field has another length than 64 returns false and does not crash.
C13_MalformedSignatureLengthRejected ==
    /\ ret.op = "VerifyData" => ~ret.panic
    /\ (ret.op = "VerifyData" /\ ret.ok)
        => \E i \in DOMAIN VehicleHistory :
            /\ EntryCheck(VehicleHistory[i], owner, FileHash(file)) = "match"
            /\ Len(VehicleHistory[i].ExtIDs[1]) = SigLen
    /\ (ret.op = "checkFileIntegrity" /\ FetchedAll(ret)
            /\ Len(Fetched(ret).ExtIDs) >= 1
            /\ Len(Fetched(ret).ExtIDs[1]) # SigLen)
        => (~ret.ok /\ ~ret.panic)

\* C14: point-lookup equivalence. A checkFileIntegrity that read the file and
\* fetched record R returns what VerifyData returns on the history that holds
\* R alone.
C14_PointLookupEquivalence ==
    (ret.op = "checkFileIntegrity" /\ FetchedAll(ret))
    => /\ ret.err = Nil
       /\ ScanOutcome(ret) = ScanFrom(<<Fetched(ret)>>, 1, owner, FileHash(file))

\* C15: a VIN whose length is not 17 creates no partial state. NewVehicle
\* returns no Vehicle for it (and so no chain ID); a main that was given such
\* a VIN issues no ledger operation: it never gets to a commit or a reveal,
\* it ends without any ledger call made, and no chain named by such a VIN
\* exists on the ledger.
C15_WrongLengthVinRejected ==
    /\ \A vin \in VinInputs : Len(vin) # VinLen => NewVehicle(vin) = Nil
    /\ \A t \in Callers :
        (cur[t].op \in {"main", "Vehicle.Register"} /\ Len(cur[t].arg) # VinLen)
        => (cur[t].pc = "constructed" /\ cur[t].calls = <<>>)
    /\ (ret.op = "Vehicle.Register" /\ Len(ret.arg) # VinLen)
        => (ret.calls = <<>> /\ ret.txID = EmptyTxID)
    /\ \A vin \in VinInputs :
        Len(vin) # VinLen => ~ChainExists(NewChainID(<<VehicleLabel, vin>>))

C15_Witness ==
    /\ ret.op = "Vehicle.Register"
    /\ Len(ret.arg) = VinLen + 1
    /\ ret.panic
    /\ \E vin \in VinInputs : ChainExists(NewChainID(<<VehicleLabel, vin>>))

\* A capture or a file read of the pass failed.
AcquisitionFailed(calls) ==
    \E i \in DOMAIN calls :
        calls[i].fn \in {"capture", "ReadFile"} /\ calls[i].err # Nil

\* C16: I/O errors are not swallowed between acquisition and anchoring. A
\* pass of RecordVideo or RecordOBD in which a call failed ends with that
\* failure surfaced; a pass whose capture or file read failed calls neither
\* CommitEntry nor RevealEntry; and every record the loops put on the
\* vehicle's chain has the fingerprint of a file that was read as content.
C16_NoSwallowedErrors ==
    /\ (ret.op \in Loops /\ ~AllAnswered(ret)) => (ret.panic /\ ret.err # Nil)
    /\ \A t \in Callers :
        cur[t].op \in Loops => ~AcquisitionFailed(cur[t].calls)
    /\ (ret.op \in Loops /\ AcquisitionFailed(ret.calls))
        => (CountCalls(ret.calls, "CommitEntry") = 0
            /\ CountCalls(ret.calls, "RevealEntry") = 0)
    /\ \A i \in 2..Len(VehicleHistory) : VehicleHistory[i].Content \in Hashes

\* The record carries the owner's public key and the local file's
\* fingerprint as content.
ClaimsLocalFile(e) ==
    /\ owner # 0
    /\ Len(e.ExtIDs) = 2
    /\ e.ExtIDs[2] = PubBytes(owner)
    /\ e.Content = FileHash(file)

\* The record's signature verifies over its content under the owner's key.
SignedByOwner(e) == Verify(PubFixed(owner), e.Content, e.ExtIDs[1])

CreatedChainID(op) ==
    NewChain([ChainID |-> Nil, ExtIDs |-> RegisterExtIDs(op), Content |-> Nil]).ChainID

\* C18: probe/creation consistency. For the Person and for the Vehicle, the
\* chain ID derived at construction, which IsRegistered probes, is the ID of
\* the chain Register creates; IsRegistered is true exactly when that chain
\* is on the ledger, and it is true after every Register whose reveal the
\* ledger applied, whether or not the answer came back.
C18_ProbeCreationConsistency ==
    /\ \A op \in RegisterOps :
        /\ ReceiverChainID(op) = CreatedChainID(op)
        /\ IsRegistered(op) <=> ChainCount(CreatedChainID(op)) >= 1
    /\ \A id \in DOMAIN created :
        \E op \in RegisterOps : id = ReceiverChainID(op)
    /\ (ret.op \in RegisterOps /\ ret.applied >= 1) => IsRegistered(ret.op)
    /\ (ret.op \in RegisterOps
            /\ CommittedAndRevealed(ret, "CommitChain", "RevealChain"))
        => IsRegistered(ret.op)

C18_Witness ==
    /\ ret.op = "Person.Register"
    /\ ~ret.probe
    /\ ret.applied = 1
    /\ IsRegistered("Person.Register")
    /\ ~IsRegistered("Vehicle.Register")

\* What a VerifyData called now returns when its history fetch and its file
\* read succeed.
VerifiesNow ==
    ScanFrom(VehicleHistory, 1, owner, FileHash(file)) = "true"

\* C19: verification is stable under further ledger activity. A VerifyData
\* whose history fetch and file read succeed returns (true, nil) exactly when
\* the file verifies against the ledger as it is; and once the file
\* verifies, it verifies after every step that leaves the file and the owner
\* as they are: a Register or a secureHashOnChain that commits, reveals,
\* fails or loses its answer, and a record of any other writer. (Whether the
\* file verifies depends on the file, the owner and the vehicle's history
\* alone, so only the steps that change the history are looked at.)
C19_VerificationStable ==
    /\ []((ret.op = "VerifyData" /\ FetchedAll(ret))
            => ((ret.ok /\ ret.err = Nil) <=> VerifiesNow))
    /\ [][(file' = file /\ owner' = owner /\ VehicleHistory' # VehicleHistory
                /\ VerifiesNow)
            => VerifiesNow']_vars

\* The file verifies again after a record was appended behind its match.
C19_Witness ==
    /\ ret.op = "VerifyData"
    /\ ret.ok
    /\ ret.err = Nil
    /\ Len(VehicleHistory) = 3
    /\ IsValidMatch(VehicleHistory[2])
    /\ ~IsValidMatch(VehicleHistory[3])
    /\ ChainExists(person.chainID)

\* C20: concurrent registration. However two runs' Register calls for the
\* same entity interleave, the ledger never holds two chains with one chain
\* ID, every chain created is the entity's own (the one IsRegistered
\* probes), so at most one chain is created per entity, and of the calls in
\* progress for one entity at most one had its reveal applied.
C20_ConcurrentRegistration ==
    /\ NoDuplicateChains
    /\ \A id \in DOMAIN created :
        \E op \in RegisterOps : id = ReceiverChainID(op)
    /\ \A op \in RegisterOps : ChainCount(ReceiverChainID(op)) <= 1
    /\ \A t, u \in Registrars :
        (t # u /\ cur[t].op = cur[u].op /\ cur[t].op \in RegisterOps)
        => cur[t].applied + cur[u].applied <= 1

\* Both runs found no chain; the one that revealed second was turned down.
C20_Witness ==
    /\ ret.op = "Vehicle.Register"
    /\ ~ret.probe
    /\ ret.calls = <<Call("CommitChain", Nil),
                     Call("RevealChain", NetErr("RevealChain", "rejected"))>>
    /\ ret.applied = 0
    /\ ChainCount(vehicle.chainID) = 1

====
